---- MODULE Spec2Model ----
(***************************************************************************)
(* Task orchestration engine of the WebAgent API: the in-memory task       *)
(* registry (api_server.tasks), the submission / cancellation surface      *)
(* (start_task, cancel_task), the orchestrator coroutine (run_agent_task)  *)
(* and the blocking step loop run on the worker pool (run_agent_sync),     *)
(* with the status notifier (send_status_update_sync) and the step ledger  *)
(* (the mongodb module) as collaborators that may fail.                    *)
(*                                                                         *)
(* Execution contexts: every coroutine of the event loop runs atomically   *)
(* between two awaits; run_agent_task has one await (run_in_executor), so  *)
(* it is two atomic segments.  run_agent_sync runs on a pool thread and    *)
(* interleaves with the event loop between any two registry accesses.      *)
(***************************************************************************)
EXTENDS Integers, Sequences, FiniteSets, TLC

\* ---------------------------------------------------------------- bounds
\* largest step budget (max_steps) a request carries in the model
MaxBudget == 2

\* largest step index generate_step_id is applied to (SpecIds)
MaxIndex == 1000

\* ------------------------------------------------------ program constants
\* ThreadPoolExecutor(max_workers=4)
PoolSize == 4
\* width of the zero padding in f"{index:03d}"
PadWidth == 3

\* run identifiers uuid4 can produce (f"run_{uuid.uuid4().hex[:12]}", shortened)
RunIds == {"run_a", "run_b", "run_c", "run_d", "run_e"}
CapsuleIds == {"capsule_1"}
CallbackUrls == {"", "http://cb"}
None == "None"

\* ------------------------------------------------------------- strings
\* A Python str is modelled as a sequence of one-character strings.
Alphabet == <<"0","1","2","3","4","5","6","7","8","9","_",
              "a","b","c","d","e","n","p","r","s","t","u">>
\* position of a character in code point order (digits < "_" < letters)
Ord(c) == CHOOSE k \in 1..Len(Alphabet) : Alphabet[k] = c

RunIdChars(r) ==
    <<"r","u","n","_">> \o
        CASE r = "run_a" -> <<"a">>
          [] r = "run_b" -> <<"b">>
          [] r = "run_c" -> <<"c">>
          [] r = "run_d" -> <<"d">>
          [] OTHER -> <<"e">>

DigitChar(d) == Alphabet[d + 1]

RECURSIVE Decimal(_)
\* str(n) for n >= 0
Decimal(n) == IF n < 10 THEN <<DigitChar(n)>>
              ELSE Append(Decimal(n \div 10), DigitChar(n % 10))

RECURSIVE ZeroPad(_, _)
\* format spec "0{w}d": pad on the left with "0" up to a MINIMUM width w
ZeroPad(s, w) == IF Len(s) >= w THEN s ELSE ZeroPad(<<"0">> \o s, w)

\* f"step_{run_id}_{index:03d}"
generate_step_id(run_id, index) ==
    <<"s","t","e","p","_">> \o RunIdChars(run_id) \o <<"_">>
        \o ZeroPad(Decimal(index), PadWidth)

RECURSIVE StrLess(_, _)
\* Python's str.__lt__: lexicographic by code point, a proper prefix is smaller
StrLess(a, b) ==
    IF b = << >> THEN FALSE
    ELSE IF a = << >> THEN TRUE
    ELSE IF a[1] # b[1] THEN Ord(a[1]) < Ord(b[1])
    ELSE StrLess(Tail(a), Tail(b))

\* ------------------------------------------------------------ notifier
\* what the POST does when a callback_url is set
HttpOutcomes == {"2xx", "HTTPError", "Exception"}
SendOutcomes(url) == IF url = "" THEN {"skipped"} ELSE HttpOutcomes

\* send_status_update_sync without its last except clause
send_status_update_sync_noexcept(callback_url, outcome) ==
    IF callback_url = "" THEN "True"
    ELSE IF outcome = "2xx" THEN "True"
    ELSE IF outcome = "HTTPError" THEN "False"
    ELSE "raise"

\* send_status_update_sync: "True" / "False" are its return values,
\* "raise" is an exception escaping to the caller
send_status_update_sync(callback_url, outcome) ==
    IF callback_url = "" THEN "True"
    ELSE IF outcome = "2xx" THEN "True"
    ELSE IF outcome = "HTTPError" THEN "False"
    ELSE "False"

\* ------------------------------------------------------------- state
VARIABLES
    AGENT_AVAILABLE,    \* agent_runner.AGENT_AVAILABLE (agentlab importable)
    MONGODB_AVAILABLE,  \* agent_runner.MONGODB_AVAILABLE (db importable)
    ids,                \* the run identifiers uuid4 hands out in this run
    tasks,              \* api_server.tasks: run_id -> Task Record (a dict)
    config,             \* the TaskConfig start_task built for each run_id
    pc,                 \* position of run_agent_task / run_agent_sync per task
    current_step,       \* run_agent_sync local
    current_step_id,    \* run_agent_sync local (None or the id string)
    env,                \* run_agent_sync local: None, "open", "closed"
    is_done,            \* step_info.is_done
    action,             \* last value returned by step_info.from_action
    exc,                \* exception in flight for the task (None if none)
    log,                \* per task: ledger calls, status updates and engine
                        \* calls in the order they were issued
    last_send,          \* last call of send_status_update_sync
    cancel_req,         \* the first cancel request made while the task was
                        \* not terminal: the registry step and the position
                        \* of the task at that moment (step -1: none yet)
    id_in, id_out,      \* inputs / results of generate_step_id (SpecIds)
    queue,              \* work queue of _executor: the tasks submitted with
                        \* run_in_executor that no pool thread has taken yet
    resp,               \* the answer to the last request made on the surface
    MONGODB_CONNECTED,  \* api_server.MONGODB_AVAILABLE (db importable and
                        \* mongodb.test_connection() true)
    workflows,          \* api_server.workflows: workflow_id -> document
    mongo_workflows,    \* the documents mongodb.create_workflow accepted
    idempotency_cache,  \* api_server.idempotency_cache: key -> response
    wf_next,            \* number of uuid4 draws made by create_workflow
    wf_resp             \* the answer to the last POST /workflows

\* the workflow state of api_server, which no task operation reads or writes
wfVars == <<MONGODB_CONNECTED, workflows, mongo_workflows,
            idempotency_cache, wf_next, wf_resp>>
cfgVars == <<AGENT_AVAILABLE, MONGODB_AVAILABLE, ids, wfVars>>
regVars == <<tasks, config>>
workerVars == <<current_step, current_step_id, env, is_done, action>>
idVars == <<id_in, id_out>>
vars == <<AGENT_AVAILABLE, MONGODB_AVAILABLE, ids, tasks, config, pc,
          current_step, current_step_id, env, is_done, action, exc,
          log, last_send, cancel_req, id_in, id_out, queue, resp,
          MONGODB_CONNECTED, workflows, mongo_workflows,
          idempotency_cache, wf_next, wf_resp>>

Terminal == {"completed", "failed", "cancelled"}
WorkerPcs == {"w_init", "w_step0", "w_loop", "w_open", "w_decide",
              "w_record", "w_act", "w_complete", "w_except", "w_finally"}

NoError == << >>
NoRequest == [step |-> -1, at |-> ""]
NoIdInput == [run_a |-> "", i |-> 0, run_b |-> "", j |-> 0]
NoStepId == << >>
NoResponse == [op |-> "", id |-> "", code |-> 0]
\* an HTTP response: the status code FastAPI answers the request with
Response(op, id, code) == [op |-> op, id |-> id, code |-> code]
NoConfig == [task_id |-> "", capsule_id |-> "", callback_url |-> "",
             max_steps |-> 0]
Registered == DOMAIN tasks

\* one entry of log[t]
Ev(sink, op, idx, st, id, ok) ==
    [sink |-> sink, op |-> op, idx |-> idx, st |-> st, id |-> id, ok |-> ok]
Ledger(op, idx, st, id, ok) == Ev("ledger", op, idx, st, id, ok)
Notify(st, idx, act) == Ev("notify", act, idx, st, << >>, TRUE)
Engine(op, idx, ok) == Ev("engine", op, idx, "", << >>, ok)
\* step_info.from_action: st is the action it returned
Decide(idx, act) == Ev("engine", "decide", idx, act, << >>, TRUE)

\* the status written into every record of the registry
SetStatus_all(t, s) == [u \in DOMAIN tasks |-> [tasks[u] EXCEPT !.status = s]]
SetStatus(t, s) == [tasks EXCEPT ![t].status = s]
\* the error text written without the status
SetFailed_erroronly(t, msg) == [tasks EXCEPT ![t].error = msg]
SetFailed(t, msg) == [tasks EXCEPT ![t].status = "failed", ![t].error = msg]

\* outcomes of one ledger call: it returns or it raises
LedgerOutcomes == {"ok", "raise"}

NoWorkflowResponse == [workflow_id |-> None]

\* the state after import of both modules, before any request; connected
\* is the set of results mongodb.test_connection() may have given
InitState(runIds, connected) ==
    /\ AGENT_AVAILABLE \in BOOLEAN
    /\ MONGODB_AVAILABLE \in BOOLEAN
    /\ MONGODB_CONNECTED \in {c \in connected : c => MONGODB_AVAILABLE}
    /\ workflows = << >>
    /\ mongo_workflows = {}
    /\ idempotency_cache = << >>
    /\ wf_next = 0
    /\ wf_resp = NoWorkflowResponse
    /\ ids = runIds
    /\ tasks = << >>
    /\ config = [t \in RunIds |-> NoConfig]
    /\ pc = [t \in RunIds |-> "absent"]
    /\ current_step = [t \in RunIds |-> 0]
    /\ current_step_id = [t \in RunIds |-> NoStepId]
    /\ env = [t \in RunIds |-> None]
    /\ is_done = [t \in RunIds |-> FALSE]
    /\ action = [t \in RunIds |-> None]
    /\ exc = [t \in RunIds |-> None]
    /\ log = [t \in RunIds |-> << >>]
    /\ last_send = [task |-> None, outcome |-> None, ret |-> None]
    /\ cancel_req = [t \in RunIds |-> NoRequest]
    /\ queue = << >>
    /\ resp = NoResponse

\* the task specifications start with the connection test of api_server
\* failed: none of the task operations reads its result
InitWith(runIds) == InitState(runIds, {FALSE})

\* one submitted task, every collaborator free to fail
Init ==
    /\ InitWith({"run_a"})
    /\ id_in = NoIdInput
    /\ id_out = << >>

\* ------------------------------------------------- submission surface
\* POST /start
start_task(t, max_steps, callback_url, capsule_id) ==
    /\ t \in ids \ Registered
    /\ tasks' = tasks @@ (t :> [status |-> "starting",
                                step |-> 0,
                                total_steps |-> max_steps,
                                started_at |-> Cardinality(Registered),
                                capsule_id |-> capsule_id,
                                error |-> NoError])
    /\ config' = [config EXCEPT ![t] = [task_id |-> t,
                                        capsule_id |-> capsule_id,
                                        callback_url |-> callback_url,
                                        max_steps |-> max_steps]]
    /\ pc' = [pc EXCEPT ![t] = "pending"]
    /\ resp' = Response("start", t, 202)
    /\ UNCHANGED <<cfgVars, workerVars, exc, log,
                   last_send, cancel_req, idVars, queue>>

\* DELETE /tasks/{task_id} marking the task cancelled by itself
cancel_task_direct(t) ==
    /\ IF t \notin Registered
       THEN /\ resp' = Response("cancel", t, 404)
            /\ UNCHANGED <<tasks, cancel_req>>
       ELSE /\ tasks' = SetStatus(t, "cancelled")
            /\ cancel_req' =
                 IF cancel_req[t] = NoRequest /\ tasks[t].status \notin Terminal
                 THEN [cancel_req EXCEPT
                         ![t] = [step |-> tasks[t].step, at |-> pc[t]]]
                 ELSE cancel_req
            /\ resp' = Response("cancel", t, 200)
    /\ UNCHANGED <<cfgVars, config, pc, workerVars,
                   exc, log, last_send, idVars, queue>>

\* DELETE /tasks/{task_id}
cancel_task(t) ==
    /\ IF t \notin Registered
       THEN /\ resp' = Response("cancel", t, 404)
            /\ UNCHANGED <<tasks, cancel_req>>
       ELSE /\ tasks' = SetStatus(t, "cancelling")
            /\ cancel_req' =
                 IF cancel_req[t] = NoRequest /\ tasks[t].status \notin Terminal
                 THEN [cancel_req EXCEPT
                         ![t] = [step |-> tasks[t].step, at |-> pc[t]]]
                 ELSE cancel_req
            /\ resp' = Response("cancel", t, 200)
    /\ UNCHANGED <<cfgVars, config, pc, workerVars,
                   exc, log, last_send, idVars, queue>>

\* GET /status/{task_id} reading the record with tasks.get(task_id, {})
get_task_status_lenient(t) ==
    /\ resp' = Response("status", t, 200)
    /\ UNCHANGED <<cfgVars, regVars, pc, workerVars,
                   exc, log, last_send, cancel_req, idVars, queue>>

\* GET /status/{task_id}
get_task_status(t) ==
    /\ resp' = IF t \notin Registered THEN Response("status", t, 404)
                                      ELSE Response("status", t, 200)
    /\ UNCHANGED <<cfgVars, regVars, pc, workerVars,
                   exc, log, last_send, cancel_req, idVars, queue>>

\* ------------------------------------------------------- collaborators
\* a ledger call is made only when MONGODB_AVAILABLE
LOut == IF MONGODB_AVAILABLE THEN LedgerOutcomes ELSE {"skip"}
LedgerEv(op, idx, st, id, o) ==
    IF o = "skip" THEN << >> ELSE <<Ledger(op, idx, st, id, o = "ok")>>

Url(t) == config[t].callback_url
Sent(t, o) == [task |-> t, outcome |-> o,
               ret |-> send_status_update_sync(Url(t), o)]
Raised(t, o) == send_status_update_sync(Url(t), o) = "raise"

AddLog(t, evs) == [log EXCEPT ![t] = @ \o evs]

\* ------------------------------------------------------- orchestrator
UnavailableMsg == <<"AgentLab not available. Please install agentlab package.">>

\* run_agent_task up to its await: the background task starts, creates
\* the run, fast-fails or marks the task running and submits the step loop
run_agent_task_begin(t) ==
    /\ pc[t] = "pending"
    /\ \E cr \in LOut, ur \in LOut, o \in SendOutcomes(Url(t)) :
        LET created == LedgerEv("create_run", 0, "", NoStepId, cr) IN
        IF ~AGENT_AVAILABLE
        THEN /\ tasks' = SetFailed(t, UnavailableMsg)
             /\ IF ur = "raise"
                THEN /\ log' = AddLog(t, created \o
                          LedgerEv("update_run_status", 0, "failed", NoStepId, ur))
                     /\ pc' = [pc EXCEPT ![t] = "orch_raised"]
                     /\ exc' = [exc EXCEPT ![t] = "LedgerError"]
                     /\ o = CHOOSE x \in SendOutcomes(Url(t)) : TRUE
                     /\ UNCHANGED last_send
                ELSE /\ log' = AddLog(t, created \o
                          LedgerEv("update_run_status", 0, "failed", NoStepId, ur)
                          \o <<Notify("failed", 0, None)>>)
                     /\ last_send' = Sent(t, o)
                     /\ pc' = [pc EXCEPT ![t] =
                          IF Raised(t, o) THEN "orch_raised" ELSE "orch_done"]
                     /\ exc' = [exc EXCEPT ![t] =
                          IF Raised(t, o) THEN "NotifierError" ELSE None]
        ELSE /\ ur = CHOOSE x \in LOut : TRUE
             /\ tasks' = SetStatus(t, "running")
             /\ log' = AddLog(t, created \o
                          <<Notify("running", 0, "initializing")>>)
             /\ last_send' = Sent(t, o)
             /\ pc' = [pc EXCEPT ![t] =
                          IF Raised(t, o) THEN "orch_raised" ELSE "queued"]
             /\ exc' = [exc EXCEPT ![t] =
                          IF Raised(t, o) THEN "NotifierError" ELSE None]
    \* loop.run_in_executor(_executor, run_agent_sync, ...) submits the task
    /\ queue' = IF pc'[t] = "queued" THEN Append(queue, t) ELSE queue
    /\ UNCHANGED <<cfgVars, config, workerVars,
                   cancel_req, idVars, resp>>

\* run_agent_task called with a config whose task_id is not a key of the
\* registry: the first registry write (line 214 or 235) raises KeyError
run_agent_task_unregistered(t) ==
    /\ t \notin ids /\ pc[t] = "absent"
    /\ \E cr \in LOut :
          log' = AddLog(t, LedgerEv("create_run", 0, "", NoStepId, cr))
    /\ pc' = [pc EXCEPT ![t] = "orch_raised"]
    /\ exc' = [exc EXCEPT ![t] = "KeyError"]
    /\ UNCHANGED <<cfgVars, regVars, workerVars, last_send,
                   cancel_req, idVars, queue, resp>>

\* run_agent_task deleting the record of a task whose worker returned
run_agent_task_resume_evict(t) ==
    /\ pc[t] = "w_exit"
    /\ IF exc[t] = None
       THEN /\ pc' = [pc EXCEPT ![t] = "orch_done"]
            /\ tasks' = [u \in Registered \ {t} |-> tasks[u]]
            /\ UNCHANGED <<log, last_send, exc>>
       ELSE \E ur \in LOut, o \in SendOutcomes(Url(t)) :
            /\ tasks' = SetFailed(t, <<"Agent task failed", exc[t]>>)
            /\ IF ur = "raise"
               THEN /\ log' = AddLog(t,
                         LedgerEv("update_run_status", 0, "failed", NoStepId, ur))
                    /\ pc' = [pc EXCEPT ![t] = "orch_raised"]
                    /\ exc' = [exc EXCEPT ![t] = "LedgerError"]
                    /\ o = CHOOSE x \in SendOutcomes(Url(t)) : TRUE
                    /\ UNCHANGED last_send
               ELSE /\ log' = AddLog(t,
                         LedgerEv("update_run_status", 0, "failed", NoStepId, ur)
                         \o <<Notify("failed", tasks[t].step, None)>>)
                    /\ last_send' = Sent(t, o)
                    /\ pc' = [pc EXCEPT ![t] =
                         IF Raised(t, o) THEN "orch_raised" ELSE "orch_done"]
                    /\ exc' = [exc EXCEPT ![t] =
                         IF Raised(t, o) THEN "NotifierError" ELSE None]
    /\ UNCHANGED <<cfgVars, config, workerVars,
                   cancel_req, idVars, queue, resp>>

\* run_agent_task after its await: the future of run_in_executor resolved
run_agent_task_resume(t) ==
    /\ pc[t] = "w_exit"
    /\ IF exc[t] = None
       THEN /\ pc' = [pc EXCEPT ![t] = "orch_done"]
            /\ UNCHANGED <<tasks, log, last_send, exc>>
       ELSE \E ur \in LOut, o \in SendOutcomes(Url(t)) :
            /\ tasks' = SetFailed(t, <<"Agent task failed", exc[t]>>)
            /\ IF ur = "raise"
               THEN /\ log' = AddLog(t,
                         LedgerEv("update_run_status", 0, "failed", NoStepId, ur))
                    /\ pc' = [pc EXCEPT ![t] = "orch_raised"]
                    /\ exc' = [exc EXCEPT ![t] = "LedgerError"]
                    /\ o = CHOOSE x \in SendOutcomes(Url(t)) : TRUE
                    /\ UNCHANGED last_send
               ELSE /\ log' = AddLog(t,
                         LedgerEv("update_run_status", 0, "failed", NoStepId, ur)
                         \o <<Notify("failed", tasks[t].step, None)>>)
                    /\ last_send' = Sent(t, o)
                    /\ pc' = [pc EXCEPT ![t] =
                         IF Raised(t, o) THEN "orch_raised" ELSE "orch_done"]
                    /\ exc' = [exc EXCEPT ![t] =
                         IF Raised(t, o) THEN "NotifierError" ELSE None]
    /\ UNCHANGED <<cfgVars, config, workerVars,
                   cancel_req, idVars, queue, resp>>

\* ---------------------------------------------------------- step loop
\* the calls of a block up to the one that raises (failAt = 0: none raises)
Upto(calls, failAt) ==
    [i \in 1..(IF failAt = 0 THEN Len(calls) ELSE failAt) |->
        [calls[i] EXCEPT !.ok = (i # failAt)]]

\* the tasks a pool thread is executing run_agent_sync for
Busy == {u \in RunIds : pc[u] \in WorkerPcs}
\* a pool without the max_workers limit
PoolHasRoom_unbounded == TRUE
\* a thread of the pool is idle (or can still be created)
PoolHasRoom == Cardinality(Busy) < PoolSize

\* an exception raised inside the try block of run_agent_sync
ToExcept(t, e) ==
    /\ pc' = [pc EXCEPT ![t] = "w_except"]
    /\ exc' = [exc EXCEPT ![t] = e]

Goto(t, l) ==
    /\ pc' = [pc EXCEPT ![t] = l]
    /\ UNCHANGED exc

\* a pool thread picks the task up: run_agent_sync before its try block
worker_start(t) ==
    /\ pc[t] = "queued"
    /\ queue # << >> /\ t = Head(queue)
    /\ queue' = Tail(queue)
    /\ PoolHasRoom
    /\ \E prep \in {"ok", "raise"} :
        IF prep = "raise"
        THEN /\ pc' = [pc EXCEPT ![t] = "w_exit"]
             /\ exc' = [exc EXCEPT ![t] = "EngineError"]
             /\ log' = AddLog(t, <<Engine("prepare", 0, FALSE)>>)
        ELSE /\ pc' = [pc EXCEPT ![t] = "w_init"]
             /\ log' = AddLog(t, <<Engine("prepare", 0, TRUE)>>)
             /\ UNCHANGED exc
    /\ env' = [env EXCEPT ![t] = None]
    /\ current_step_id' = [current_step_id EXCEPT ![t] = NoStepId]
    /\ UNCHANGED <<cfgVars, regVars, current_step,
                   is_done, action, last_send, cancel_req, idVars, resp>>

\* make_agent, make_env, StepInfo(step=0).from_reset, current_step = 0
w_init(t) ==
    /\ pc[t] = "w_init"
    /\ \E r \in {"ok", "make_raise", "reset_raise"} :
        /\ env' = [env EXCEPT ![t] = IF r = "make_raise" THEN None ELSE "open"]
        /\ log' = AddLog(t,
             IF r = "make_raise" THEN <<Engine("make_env", 0, FALSE)>>
             ELSE <<Engine("make_env", 0, TRUE), Engine("reset", 0, r = "ok")>>)
        /\ IF r = "ok"
           THEN /\ Goto(t, "w_step0")
                /\ current_step' = [current_step EXCEPT ![t] = 0]
                /\ is_done' = [is_done EXCEPT ![t] = FALSE]
           ELSE /\ ToExcept(t, "EngineError")
                /\ UNCHANGED <<current_step, is_done>>
    /\ UNCHANGED <<cfgVars, regVars,
                   current_step_id, action, last_send, cancel_req, idVars, queue, resp>>

\* step 0 opened and never closed
InitialStepCalls_unclosed(idx, id) ==
    <<Ledger("add_step", idx, "", id, TRUE),
      Ledger("update_capsule_stats", 0, "", NoStepId, TRUE)>>

\* the ledger calls of the synthetic step 0, in program order
InitialStepCalls(idx, id) ==
    <<Ledger("add_step", idx, "", id, TRUE),
      Ledger("complete_step", idx, "success", id, TRUE),
      Ledger("update_capsule_stats", 0, "", NoStepId, TRUE)>>

\* the synthetic step 0 of the ledger
w_step0(t) ==
    /\ pc[t] = "w_step0"
    /\ IF ~MONGODB_AVAILABLE
       THEN /\ Goto(t, "w_loop")
            /\ UNCHANGED <<current_step_id, log>>
       ELSE LET id == generate_step_id(config[t].task_id, current_step[t])
                calls == InitialStepCalls(current_step[t], id)
            IN \E failAt \in 0..Len(calls) :
                /\ current_step_id' = [current_step_id EXCEPT ![t] = id]
                /\ log' = AddLog(t, Upto(calls, failAt))
                /\ IF failAt = 0 THEN Goto(t, "w_loop")
                                 ELSE ToExcept(t, "LedgerError")
    /\ UNCHANGED <<cfgVars, regVars, current_step,
                   env, is_done, action, last_send, cancel_req, idVars, queue, resp>>

\* a cancellation check that waits instead of returning
w_loop_spin(t) ==
    /\ pc[t] = "w_loop"
    /\ IF is_done[t]
       THEN Goto(t, "w_complete")
       ELSE IF tasks[t].status = "cancelling"
       THEN Goto(t, "w_loop")
       ELSE Goto(t, "w_open")
    /\ UNCHANGED <<cfgVars, regVars, workerVars, log, last_send,
                   cancel_req, idVars, queue, resp>>

\* while not step_info.is_done: the cancellation check
w_loop(t) ==
    /\ pc[t] = "w_loop"
    /\ IF is_done[t]
       THEN /\ Goto(t, "w_complete")
            /\ UNCHANGED <<tasks, log, last_send>>
       ELSE IF tasks[t].status = "cancelling"
       THEN \E ur \in LOut, o \in SendOutcomes(Url(t)) :
            /\ tasks' = SetStatus(t, "cancelled")
            /\ IF ur = "raise"
               THEN /\ log' = AddLog(t, LedgerEv("update_run_status", 0,
                                                 "cancelled", NoStepId, ur))
                    /\ ToExcept(t, "LedgerError")
                    /\ o = CHOOSE x \in SendOutcomes(Url(t)) : TRUE
                    /\ UNCHANGED last_send
               ELSE /\ log' = AddLog(t, LedgerEv("update_run_status", 0,
                                                 "cancelled", NoStepId, ur)
                              \o <<Notify("cancelled", current_step[t], None)>>)
                    /\ last_send' = Sent(t, o)
                    /\ IF Raised(t, o) THEN ToExcept(t, "NotifierError")
                                       ELSE Goto(t, "w_finally")
       ELSE /\ Goto(t, "w_open")
            /\ UNCHANGED <<tasks, log, last_send>>
    /\ UNCHANGED <<cfgVars, config, workerVars,
                   cancel_req, idVars, queue, resp>>

\* current_step += 1 and the ledger entry opened before the decision
w_open(t) ==
    /\ pc[t] = "w_open"
    /\ current_step' = [current_step EXCEPT ![t] = @ + 1]
    /\ IF ~MONGODB_AVAILABLE
       THEN /\ Goto(t, "w_decide")
            /\ UNCHANGED <<current_step_id, log>>
       ELSE LET id == generate_step_id(config[t].task_id, current_step[t] + 1)
            IN \E o \in LedgerOutcomes :
                /\ current_step_id' = [current_step_id EXCEPT ![t] = id]
                /\ log' = AddLog(t, LedgerEv("add_step", current_step[t] + 1,
                                             "", id, o))
                /\ IF o = "ok" THEN Goto(t, "w_decide")
                               ELSE ToExcept(t, "LedgerError")
    /\ UNCHANGED <<cfgVars, regVars, env, is_done,
                   action, last_send, cancel_req, idVars, queue, resp>>

\* step_info.from_action(agent), the screenshot and its ledger counter
w_decide(t) ==
    /\ pc[t] = "w_decide"
    /\ \E d \in {"action", "none", "raise"},
          shot \in (IF MONGODB_AVAILABLE THEN BOOLEAN ELSE {FALSE}),
          so \in LedgerOutcomes :
        IF d = "raise"
        THEN /\ shot = FALSE /\ so = "ok"
             /\ log' = AddLog(t, <<Engine("decide", current_step[t], FALSE)>>)
             /\ ToExcept(t, "EngineError")
             /\ UNCHANGED action
        ELSE /\ action' = [action EXCEPT ![t] =
                              IF d = "action" THEN "click" ELSE None]
             /\ IF shot
                THEN /\ log' = AddLog(t,
                          <<Decide(current_step[t], action'[t])>> \o
                          LedgerEv("update_capsule_stats", 0, "", NoStepId, so))
                     /\ IF so = "ok" THEN Goto(t, "w_record")
                                     ELSE ToExcept(t, "LedgerError")
                ELSE /\ so = "ok"
                     /\ log' = AddLog(t,
                          <<Decide(current_step[t], action'[t])>>)
                     /\ Goto(t, "w_record")
    /\ UNCHANGED <<cfgVars, regVars, current_step,
                   current_step_id, env, is_done, last_send, cancel_req,
                   idVars, queue, resp>>

\* the step's update sent before the ledger entry is closed
w_record_sendfirst(t) ==
    /\ pc[t] = "w_record"
    /\ tasks' = [tasks EXCEPT ![t].step = current_step[t]]
    /\ \E co \in (IF MONGODB_AVAILABLE /\ current_step_id[t] # NoStepId
                  THEN LedgerOutcomes ELSE {"skip"}),
          o \in SendOutcomes(Url(t)) :
        LET closed == LedgerEv("complete_step", current_step[t], "success",
                               current_step_id[t], co) IN
        /\ log' = AddLog(t, <<Notify("running", current_step[t], action[t])>>
                            \o closed)
        /\ last_send' = Sent(t, o)
        /\ IF co = "raise" THEN ToExcept(t, "LedgerError")
                           ELSE Goto(t, "w_act")
    /\ UNCHANGED <<cfgVars, config, workerVars,
                   cancel_req, idVars, queue, resp>>

\* registry step, the ledger entry closed as success, the step's update
w_record(t) ==
    /\ pc[t] = "w_record"
    /\ tasks' = [tasks EXCEPT ![t].step = current_step[t]]
    /\ \E co \in (IF MONGODB_AVAILABLE /\ current_step_id[t] # NoStepId
                  THEN LedgerOutcomes ELSE {"skip"}),
          o \in SendOutcomes(Url(t)) :
        LET closed == LedgerEv("complete_step", current_step[t], "success",
                               current_step_id[t], co) IN
        IF co = "raise"
        THEN /\ o = CHOOSE x \in SendOutcomes(Url(t)) : TRUE
             /\ log' = AddLog(t, closed)
             /\ ToExcept(t, "LedgerError")
             /\ UNCHANGED last_send
        ELSE /\ log' = AddLog(t, closed \o
                         <<Notify("running", current_step[t], action[t])>>)
             /\ last_send' = Sent(t, o)
             /\ IF Raised(t, o) THEN ToExcept(t, "NotifierError")
                                ELSE Goto(t, "w_act")
    /\ UNCHANGED <<cfgVars, config, workerVars,
                   cancel_req, idVars, queue, resp>>

\* no action: truncated, break; else save_step_info and from_step.  The
\* engine was given max_steps and reports done once the budget is used up.
w_act(t) ==
    /\ pc[t] = "w_act"
    /\ IF action[t] = None
       THEN /\ is_done' = [is_done EXCEPT ![t] = TRUE]
            /\ Goto(t, "w_complete")
            /\ UNCHANGED log
       ELSE \E r \in {"save_raise", "step_raise", "done", "not_done"} :
            /\ r = "not_done" => current_step[t] < config[t].max_steps
            /\ log' = AddLog(t,
                 IF r = "save_raise"
                 THEN <<Engine("save_step_info", current_step[t], FALSE)>>
                 ELSE <<Engine("save_step_info", current_step[t], TRUE),
                        Engine("env_step", current_step[t], r # "step_raise")>>)
            /\ IF r \in {"done", "not_done"}
               THEN /\ is_done' = [is_done EXCEPT ![t] = (r = "done")]
                    /\ Goto(t, "w_loop")
               ELSE /\ ToExcept(t, "EngineError")
                    /\ UNCHANGED is_done
    /\ UNCHANGED <<cfgVars, regVars, current_step,
                   current_step_id, env, action, last_send, cancel_req,
                   idVars, queue, resp>>

\* completion that reports the step budget as the final step
w_complete_budget(t) ==
    /\ pc[t] = "w_complete"
    /\ tasks' = [tasks EXCEPT ![t].status = "completed",
                              ![t].step = config[t].max_steps]
    /\ \E ur \in LOut, o \in SendOutcomes(Url(t)), sv \in {"ok", "raise"} :
        LET upd == LedgerEv("update_run_status", 0, "completed", NoStepId, ur)
        IN
        IF ur = "raise"
        THEN /\ o = CHOOSE x \in SendOutcomes(Url(t)) : TRUE
             /\ sv = "ok"
             /\ log' = AddLog(t, upd)
             /\ ToExcept(t, "LedgerError")
             /\ UNCHANGED last_send
        ELSE /\ last_send' = Sent(t, o)
             /\ IF Raised(t, o)
                THEN /\ sv = "ok"
                     /\ log' = AddLog(t, upd \o
                          <<Notify("completed", current_step[t], None)>>)
                     /\ ToExcept(t, "NotifierError")
                ELSE /\ log' = AddLog(t, upd \o
                          <<Notify("completed", current_step[t], None),
                            Engine("save_step_info", current_step[t],
                                   sv = "ok")>>)
                     /\ IF sv = "ok" THEN Goto(t, "w_finally")
                                     ELSE ToExcept(t, "EngineError")
    /\ UNCHANGED <<cfgVars, config, workerVars,
                   cancel_req, idVars, queue, resp>>

\* after the loop: "Task completed successfully"
w_complete(t) ==
    /\ pc[t] = "w_complete"
    /\ tasks' = [tasks EXCEPT ![t].status = "completed",
                              ![t].step = current_step[t]]
    /\ \E ur \in LOut, o \in SendOutcomes(Url(t)), sv \in {"ok", "raise"} :
        LET upd == LedgerEv("update_run_status", 0, "completed", NoStepId, ur)
        IN
        IF ur = "raise"
        THEN /\ o = CHOOSE x \in SendOutcomes(Url(t)) : TRUE
             /\ sv = "ok"
             /\ log' = AddLog(t, upd)
             /\ ToExcept(t, "LedgerError")
             /\ UNCHANGED last_send
        ELSE /\ last_send' = Sent(t, o)
             /\ IF Raised(t, o)
                THEN /\ sv = "ok"
                     /\ log' = AddLog(t, upd \o
                          <<Notify("completed", current_step[t], None)>>)
                     /\ ToExcept(t, "NotifierError")
                ELSE /\ log' = AddLog(t, upd \o
                          <<Notify("completed", current_step[t], None),
                            Engine("save_step_info", current_step[t],
                                   sv = "ok")>>)
                     /\ IF sv = "ok" THEN Goto(t, "w_finally")
                                     ELSE ToExcept(t, "EngineError")
    /\ UNCHANGED <<cfgVars, config, workerVars,
                   cancel_req, idVars, queue, resp>>

\* except Exception as e: ... raise
w_except(t) ==
    /\ pc[t] = "w_except"
    /\ tasks' = SetFailed(t, <<"Agent error", exc[t]>>)
    /\ pc' = [pc EXCEPT ![t] = "w_finally"]
    /\ \E o \in SendOutcomes(Url(t)) :
        LET calls ==
              IF ~MONGODB_AVAILABLE THEN << >>
              ELSE <<Ledger("update_run_status", 0, "failed", NoStepId, TRUE)>>
                   \o (IF current_step_id[t] # NoStepId
                       THEN <<Ledger("fail_step", current_step[t], "error",
                                     current_step_id[t], TRUE)>>
                       ELSE << >>)
        IN \E failAt \in 0..Len(calls) :
            IF failAt # 0
            THEN /\ o = CHOOSE x \in SendOutcomes(Url(t)) : TRUE
                 /\ log' = AddLog(t, Upto(calls, failAt))
                 /\ exc' = [exc EXCEPT ![t] = "LedgerError"]
                 /\ UNCHANGED last_send
            ELSE /\ log' = AddLog(t, Upto(calls, 0) \o
                             <<Notify("failed", tasks[t].step, None)>>)
                 /\ last_send' = Sent(t, o)
                 /\ exc' = [exc EXCEPT ![t] =
                             IF Raised(t, o) THEN "NotifierError" ELSE @]
    /\ UNCHANGED <<cfgVars, config, workerVars,
                   cancel_req, idVars, queue, resp>>

\* env.close() at the end of the try block instead of the finally clause
w_finally_tryonly(t) ==
    /\ pc[t] = "w_finally"
    /\ pc' = [pc EXCEPT ![t] = "w_exit"]
    /\ IF env[t] = None \/ exc[t] # None
       THEN UNCHANGED <<env, log>>
       ELSE \E c \in {"ok", "raise"} :
            /\ env' = [env EXCEPT ![t] = "closed"]
            /\ log' = AddLog(t, <<Engine("close", current_step[t], c = "ok")>>)
    /\ UNCHANGED <<cfgVars, regVars, current_step,
                   current_step_id, is_done, action, exc, last_send,
                   cancel_req, idVars, queue, resp>>

\* finally: env.close() if an environment was constructed
w_finally(t) ==
    /\ pc[t] = "w_finally"
    /\ pc' = [pc EXCEPT ![t] = "w_exit"]
    /\ IF env[t] = None
       THEN UNCHANGED <<env, log>>
       ELSE \E c \in {"ok", "raise"} :
            /\ env' = [env EXCEPT ![t] = "closed"]
            /\ log' = AddLog(t, <<Engine("close", current_step[t], c = "ok")>>)
    /\ UNCHANGED <<cfgVars, regVars, current_step,
                   current_step_id, is_done, action, exc, last_send,
                   cancel_req, idVars, queue, resp>>

\* ------------------------------------------------------ specification
Next ==
    \/ \E t \in RunIds, m \in 1..MaxBudget, u \in CallbackUrls,
          c \in CapsuleIds : start_task(t, m, u, c)
    \/ \E t \in ids : cancel_task(t)
    \/ \E t \in RunIds : run_agent_task_begin(t)
    \/ \E t \in RunIds : run_agent_task_resume(t)
    \/ \E t \in RunIds : worker_start(t)
    \/ \E t \in RunIds : w_init(t)
    \/ \E t \in RunIds : w_step0(t)
    \/ \E t \in RunIds : w_loop(t)
    \/ \E t \in RunIds : w_open(t)
    \/ \E t \in RunIds : w_decide(t)
    \/ \E t \in RunIds : w_record(t)
    \/ \E t \in RunIds : w_act(t)
    \/ \E t \in RunIds : w_complete(t)
    \/ \E t \in RunIds : w_except(t)
    \/ \E t \in RunIds : w_finally(t)

Spec == Init /\ [][Next]_vars

\* --------------------------------------------- step identifiers alone
\* indices around every change of the number of digits
IndexSamples == {i \in 0..MaxIndex :
                    \E b \in {0, 10, 100, 1000} : i \in (b - 1)..(b + 1)}
IdInputs == [run_a : RunIds, i : IndexSamples, run_b : RunIds,
             j : IndexSamples]

IdInit ==
    /\ InitWith({})
    /\ id_in \in IdInputs
    /\ id_out = << >>

\* run_agent_sync generating the identifiers of two steps
generate_ids ==
    /\ id_in.run_a # ""
    /\ id_out = << >>
    /\ id_out' = <<generate_step_id(id_in.run_a, id_in.i),
                   generate_step_id(id_in.run_b, id_in.j)>>
    /\ UNCHANGED <<cfgVars, regVars, pc, workerVars, exc, log, last_send,
                   cancel_req, id_in, queue, resp>>

IdNext == generate_ids

SpecIds == IdInit /\ [][IdNext]_vars

\* ------------------------------------------------------------ helpers
\* run_agent_task has returned or raised
Finished == {"orch_done", "orch_raised"}

IsStepEntry(e) ==
    e.sink = "ledger" /\ e.op \in {"add_step", "complete_step", "fail_step"}
IsNotify(e) == e.sink = "notify"
Brief(e) == <<e.op, e.st, e.idx>>
Briefly(evs) == [i \in 1..Len(evs) |-> Brief(evs[i])]
StepEntries(t) == Briefly(SelectSeq(log[t], IsStepEntry))
Notifications(t) == Briefly(SelectSeq(log[t], IsNotify))

\* an engine call other than close raised
EngineRaised(t) ==
    \E i \in 1..Len(log[t]) :
        log[t][i].sink = "engine" /\ log[t][i].op # "close" /\ ~log[t][i].ok
\* a ledger call raised
LedgerRaised(t) ==
    \E i \in 1..Len(log[t]) : log[t][i].sink = "ledger" /\ ~log[t][i].ok
AnyRaised(t) == \E i \in 1..Len(log[t]) : ~log[t][i].ok
\* the decision call returned no action at some step
NoActionReturned(t) ==
    \E i \in 1..Len(log[t]) :
        log[t][i].op = "decide" /\ log[t][i].ok /\ log[t][i].st = None
\* no cancel request was ever made for t
NeverCancelled(t) ==
    cancel_req[t] = NoRequest /\ tasks[t].status # "cancelling"

Rank(s) == CASE s = "starting" -> 0
             [] s = "running" -> 1
             [] s = "cancelling" -> 2
             [] OTHER -> 3

\* ============================================================ claims

\* C1: terminal finality.  Once a task's registry status is completed,
\* failed or cancelled, no later step of any context changes it.
C1_TerminalFinality ==
    [][\A t \in Registered :
          tasks[t].status \in Terminal => tasks'[t].status = tasks[t].status]_vars

\* C2: after a cancel request made while the registry step is k the status
\* stays cancelling until it becomes cancelled (never running again, never
\* another final status), and the registry step never exceeds k + 1.
\* Stated for the requests that arrive while the worker runs the task and
\* for the runs in which no call raises, where nothing but the request
\* decides the outcome.
C2_CancelHonoured ==
    \A t \in Registered :
        (cancel_req[t].at \in WorkerPcs /\ ~AnyRaised(t)) =>
            /\ tasks[t].status \in {"cancelling", "cancelled"}
            /\ tasks[t].step <= cancel_req[t].step + 1

\* C3: a ledger call that raises never changes the final status.  In a
\* finished run with the capability available and no engine call raising,
\* the run with a healthy ledger does not end failed, so neither may this one.
C3_LedgerNeverDecides ==
    \A t \in Registered :
        (pc[t] \in Finished /\ AGENT_AVAILABLE /\ ~EngineRaised(t))
            => tasks[t].status # "failed"

\* C4: send_status_update_sync never raises; it returns True exactly when
\* no endpoint is configured or the POST succeeded and False otherwise; and
\* a finished run in which nothing but notifications failed does not end
\* failed, as the run with a healthy notifier does not.
C4_NotifierNeverDecides ==
    /\ last_send.task # None =>
          /\ last_send.ret \in {"True", "False"}
          /\ (last_send.ret = "True") <=>
                (config[last_send.task].callback_url = ""
                    \/ last_send.outcome = "2xx")
    /\ \A t \in RunIds : exc[t] # "NotifierError"
    /\ \A t \in Registered :
          (pc[t] \in Finished /\ AGENT_AVAILABLE /\ ~EngineRaised(t)
              /\ ~LedgerRaised(t)) => tasks[t].status # "failed"

\* C4 witness: the completed update of a run could not be delivered and the
\* run is completed all the same.
C4_Witness ==
    \E t \in Registered :
        /\ pc[t] = "orch_done"
        /\ tasks[t].status = "completed"
        /\ last_send.task = t
        /\ last_send.outcome \in {"HTTPError", "Exception"}
        /\ last_send.ret = "False"

\* C5: a record is created as starting and, until it is terminal, its
\* status only moves forward along starting -> running -> cancelling ->
\* terminal (steps of the path may be skipped, none is taken backwards).
C5_ForwardOnly ==
    [][/\ \A t \in Registered' \ Registered : tasks'[t].status = "starting"
       /\ \A t \in Registered :
            \/ tasks[t].status \in Terminal
            \/ tasks'[t].status = tasks[t].status
            \/ Rank(tasks'[t].status) > Rank(tasks[t].status)]_vars

\* C6: shape of a successful run.  With the capability available, no cancel
\* request, no exception and the environment reporting done after the n-th
\* action, the ledger holds the entries 0..n, each opened and then closed as
\* success in index order; the updates are running (initializing), running
\* for 1..n, completed; the registry ends completed at step n.
C6_SuccessfulRunShape ==
    \A t \in Registered :
        (/\ pc[t] \in Finished
         /\ AGENT_AVAILABLE
         /\ NeverCancelled(t)
         /\ ~AnyRaised(t)
         /\ action[t] # None)
        => LET n == current_step[t] IN
           /\ n >= 1
           /\ tasks[t].status = "completed"
           /\ tasks[t].step = n
           /\ MONGODB_AVAILABLE =>
                StepEntries(t) =
                    [k \in 1..(2 * (n + 1)) |->
                        IF k % 2 = 1
                        THEN <<"add_step", "", (k - 1) \div 2>>
                        ELSE <<"complete_step", "success", (k - 1) \div 2>>]
           /\ Notifications(t) =
                [k \in 1..(n + 2) |->
                    IF k = 1 THEN <<"initializing", "running", 0>>
                    ELSE IF k = n + 2 THEN <<None, "completed", n>>
                    ELSE <<"click", "running", k - 1>>]

\* C6 witness: the run of the scenario, done after the second action, with
\* the ledger present.
C6_Witness ==
    \E t \in Registered :
        /\ pc[t] \in Finished
        /\ AGENT_AVAILABLE /\ MONGODB_AVAILABLE
        /\ NeverCancelled(t) /\ ~AnyRaised(t) /\ action[t] # None
        /\ current_step[t] = 2
        /\ Len(StepEntries(t)) = 6

\* C7: with the capability unavailable the task goes straight to failed
\* with the unavailability message, exactly one (failed) update is sent, the
\* step loop is never submitted and no ledger step entry is opened.
C7_FastFail ==
    \A t \in Registered :
        (~AGENT_AVAILABLE /\ pc[t] \notin {"pending"}) =>
            /\ pc[t] \in Finished
            /\ tasks[t].error = UnavailableMsg
            /\ Notifications(t) = << <<None, "failed", 0>> >>
            /\ StepEntries(t) = << >>
            /\ env[t] = None

\* C8: the cancellation checkpoint.  A worker that finds cancelling at the
\* top of an iteration sets cancelled, sends one cancelled update, opens no
\* further ledger entry, calls neither decide nor the environment and
\* returns; a cancel request moves nothing of the worker.
C8_CancellationCheckpoint ==
    [][\A t \in Registered :
        /\ (pc[t] = "w_loop" /\ ~is_done[t] /\ tasks[t].status = "cancelling"
               /\ pc'[t] # "w_loop")
           => /\ tasks'[t].status = "cancelled"
              /\ pc'[t] = "w_finally"
              /\ exc'[t] = None
              /\ Notifications(t)' =
                    Append(Notifications(t),
                           <<None, "cancelled", current_step[t]>>)
              /\ StepEntries(t)' = StepEntries(t)
              /\ \A i \in 1..Len(log'[t]) : i > Len(log[t]) =>
                    log'[t][i].sink # "engine"
        /\ (tasks[t].status # "cancelling" /\ tasks'[t].status = "cancelling")
           => /\ pc'[t] = pc[t]
              /\ log'[t] = log[t]
              /\ current_step'[t] = current_step[t]]_vars

\* C9: when the decision call returned no action, the task's status is
\* never set to failed.
C9_NoActionNeverFailed ==
    \A t \in Registered :
        NoActionReturned(t) => tasks[t].status # "failed"

\* C10: for one task the identifiers of indices i < j are distinct and
\* ordered lexically as i and j are; identifiers of different tasks differ.
C10_StepIdsSortable ==
    id_out # << >> =>
        /\ (id_in.run_a = id_in.run_b /\ id_in.i < id_in.j) =>
              /\ id_out[1] # id_out[2]
              /\ StrLess(id_out[1], id_out[2])
        /\ id_in.run_a # id_in.run_b => id_out[1] # id_out[2]

\* C11: single terminal update.  A status update with a terminal status
\* (completed, failed, cancelled) is the last update sent for its task: no
\* second terminal update and no other update follows it, also on the
\* path where the worker and the orchestrator handle the same exception.
C11_OneTerminalUpdate ==
    \A t \in Registered :
        LET n == Notifications(t)
        IN  \A i \in 1..Len(n) : n[i][2] \in Terminal => i = Len(n)

\* the running updates sent for step k
RunningUpdates(t, k) ==
    {i \in 1..Len(Notifications(t)) :
        Notifications(t)[i][2] = "running" /\ Notifications(t)[i][3] = k}
\* the decision call of step k returned
Decided(t, k) ==
    \E i \in 1..Len(log[t]) :
        log[t][i].op = "decide" /\ log[t][i].ok /\ log[t][i].idx = k

\* C12: per-task update order.  For a task the worker is started for, the
\* first update sent is the step-0 running update "initializing", the step
\* indices of the updates never decrease, and every step k >= 1 whose
\* decision call returned has exactly one running update once the worker
\* has left the part of the step that sends it.
C12_UpdateOrdering ==
    \A t \in Registered :
        AGENT_AVAILABLE =>
            LET n == Notifications(t)
            IN  /\ n # << >> => n[1] = <<"initializing", "running", 0>>
                /\ \A i, j \in 1..Len(n) : i < j => n[i][3] <= n[j][3]
                /\ \A k \in 1..current_step[t] :
                      /\ Cardinality(RunningUpdates(t, k)) <= 1
                      /\ (Decided(t, k)
                          /\ ~(pc[t] = "w_record" /\ current_step[t] = k))
                            => Cardinality(RunningUpdates(t, k)) = 1

\* complete_step or fail_step
IsClosing(e) == e.sink = "ledger" /\ e.op \in {"complete_step", "fail_step"}

\* C13: a step entry is closed at most once.  After complete_step or
\* fail_step was applied to a step id, no later complete_step or fail_step
\* is issued for the same id.  Stated for the runs in which no ledger call
\* raises, where the exception that follows the closing write comes from
\* the engine (persisting the step, applying the action).
C13_ClosedOnce ==
    \A t \in Registered :
        ~LedgerRaised(t) =>
            \A i, j \in 1..Len(log[t]) :
                (i < j /\ IsClosing(log[t][i]) /\ IsClosing(log[t][j]))
                    => log[t][i].id # log[t][j].id

\* C14: an exception of the worker stops at the orchestrator.  When the
\* executor call has ended with an exception, run_agent_task records
\* failed, absorbs the exception and returns; it never raises to its
\* caller, whatever the ledger or the notifier do inside its handler.
C14_ExecuteNeverRaises ==
    [][\A t \in Registered :
          (pc[t] = "w_exit" /\ pc'[t] # "w_exit") =>
              /\ pc'[t] = "orch_done"
              /\ exc'[t] = None
              /\ exc[t] # None => tasks'[t].status = "failed"]_vars

\* make_env returned an environment
Constructed(t) ==
    \E i \in 1..Len(log[t]) : log[t][i].op = "make_env" /\ log[t][i].ok
\* the calls of env.close()
Closes(t) == {i \in 1..Len(log[t]) : log[t][i].op = "close"}

\* C15: the environment is released on every exit path.  close is called
\* at most once; when the executor has returned or raised, an environment
\* that was constructed has been closed exactly once and one that was not
\* constructed never; the step that closes it, whether close succeeds or
\* raises, changes neither the registry nor the exception in flight.
C15_EnvClosedOnce ==
    [][\A t \in Registered :
          /\ Cardinality(Closes(t)') <= 1
          /\ pc'[t] \in {"w_exit"} \cup Finished =>
                IF Constructed(t)'
                THEN Cardinality(Closes(t)') = 1 /\ env'[t] = "closed"
                ELSE Closes(t)' = {} /\ env'[t] = None
          /\ (pc[t] = "w_finally" /\ pc'[t] = "w_exit") =>
                tasks' = tasks /\ exc'[t] = exc[t]]_vars

\* a failed task whose environment was constructed and whose close raised
C15_Witness ==
    \E t \in Registered :
        /\ pc[t] = "orch_done"
        /\ tasks[t].status = "failed"
        /\ Constructed(t)
        /\ \E i \in Closes(t) : ~log[t][i].ok

\* ------------------------------------------------------ the worker pool
\* More tasks than pool threads.  What the pool does with a task does not
\* depend on what run_agent_sync does between its start and its return,
\* so the shortest run of it is taken: the agent capability is present,
\* there is no ledger and no callback, and the browser cannot be launched
\* (make_env raises for every task).
IdOrder == <<"run_a", "run_b", "run_c", "run_d", "run_e">>
\* uuid4 hands the identifiers out in one order (the others are symmetric)
InOrder(t) ==
    \A i, j \in 1..Len(IdOrder) :
        (i < j /\ IdOrder[j] = t) => IdOrder[i] \in Registered

\* of the engine calls made so far, prepare returned and the others raised
BrowserDown ==
    \A t \in RunIds : \A i \in 1..Len(log[t]) :
        log[t][i].sink = "engine" =>
            (log[t][i].ok <=> log[t][i].op = "prepare")

\* t is in the work queue while every pool thread is busy
Waiting(t) ==
    Cardinality(Busy) = PoolSize /\ \E i \in 1..Len(queue) : queue[i] = t

PoolInit ==
    /\ InitWith(RunIds)
    /\ AGENT_AVAILABLE
    /\ ~MONGODB_AVAILABLE
    /\ id_in = NoIdInput
    /\ id_out = << >>

\* the steps of the event loop and of the pool threads
PoolRun ==
    \/ \E t \in RunIds : run_agent_task_begin(t)
    \/ \E t \in RunIds : run_agent_task_resume(t)
    \/ \E t \in RunIds : worker_start(t) /\ BrowserDown'
    \/ \E t \in RunIds : w_init(t) /\ BrowserDown'
    \/ \E t \in RunIds : w_except(t)
    \/ \E t \in RunIds : w_finally(t)

\* requests about a waiting task arrive while every pool thread is busy
PoolNext ==
    \/ \E t \in RunIds, c \in CapsuleIds :
          InOrder(t) /\ start_task(t, 1, "", c)
    \/ \E t \in RunIds : Waiting(t) /\ get_task_status(t)
    \/ \E t \in RunIds : Waiting(t) /\ cancel_task(t)
    \/ PoolRun

\* the event loop runs a ready coroutine and an idle pool thread takes the
\* head of the work queue
SpecPool == PoolInit /\ [][PoolNext]_vars /\ WF_vars(PoolRun)

\* the calls of run_agent_sync made for t
Starts(t) == {i \in 1..Len(log[t]) : log[t][i].op = "prepare"}

\* C16: the worker pool.  At most PoolSize tasks are executed by pool
\* threads at any moment; run_agent_sync is started at most once per task
\* and a task is never both in the work queue and on a thread; a task
\* submitted while every thread is busy stays queued, and every queued task
\* is eventually started; while every thread is busy the event loop still
\* accepts a submission, a poll and a cancel request.
C16_WorkerPool ==
    /\ [](Cardinality(Busy) <= PoolSize)
    /\ [](\A t \in RunIds :
            /\ Cardinality(Starts(t)) <= 1
            /\ Cardinality({i \in 1..Len(queue) : queue[i] = t})
                 = IF pc[t] = "queued" THEN 1 ELSE 0
            /\ Waiting(t) =>
                 /\ Starts(t) = {}
                 /\ ENABLED get_task_status(t)
                 /\ ENABLED cancel_task(t)
                 /\ \A u \in ids \ Registered :
                       ENABLED start_task(u, 1, "", "capsule_1"))
    /\ \A t \in RunIds : (pc[t] = "queued") ~> (Starts(t) # {})

\* a task that was polled while it waited for a thread is now executed
C16_Witness ==
    /\ resp = Response("status", "run_e", 200)
    /\ pc["run_e"] \in WorkerPcs
    /\ Cardinality(Busy) = PoolSize

\* ------------------------------------------------------ the surface
\* One submitted task without ledger and callback and with a budget of one
\* step, every engine call free to fail, and requests that name either its
\* identifier or one the registry has never seen.
ApiIds == {"run_a", "run_b"}

ApiInit ==
    /\ Init
    /\ ~MONGODB_AVAILABLE

ApiNext ==
    \/ \E t \in RunIds, c \in CapsuleIds : start_task(t, 1, "", c)
    \/ \E t \in ApiIds : get_task_status(t)
    \/ \E t \in ApiIds : cancel_task(t)
    \/ \E t \in ApiIds : run_agent_task_unregistered(t)
    \/ \E t \in RunIds : run_agent_task_begin(t)
    \/ \E t \in RunIds : run_agent_task_resume(t)
    \/ \E t \in RunIds : worker_start(t)
    \/ \E t \in RunIds : w_init(t)
    \/ \E t \in RunIds : w_step0(t)
    \/ \E t \in RunIds : w_loop(t)
    \/ \E t \in RunIds : w_open(t)
    \/ \E t \in RunIds : w_decide(t)
    \/ \E t \in RunIds : w_record(t)
    \/ \E t \in RunIds : w_act(t)
    \/ \E t \in RunIds : w_complete(t)
    \/ \E t \in RunIds : w_except(t)
    \/ \E t \in RunIds : w_finally(t)

SpecApi == ApiInit /\ [][ApiNext]_vars

\* C17: operations on an unknown task id fail loudly and change nothing.
\* A poll or a cancel request is answered 404 exactly when its id is not
\* in the registry, run_agent_task for an id that is not in the registry
\* raises (KeyError), and in each of these steps no record is created and
\* no record changes.
C17_UnknownIdRejected ==
    [][/\ (resp' # resp /\ resp'.op \in {"status", "cancel"}) =>
             /\ resp'.code = IF resp'.id \in Registered THEN 200 ELSE 404
             /\ resp'.code = 404 => tasks' = tasks
       /\ \A t \in RunIds \ Registered :
             (pc'[t] # pc[t] /\ t \notin DOMAIN tasks') =>
                 /\ pc'[t] = "orch_raised"
                 /\ exc'[t] = "KeyError"
                 /\ tasks' = tasks]_vars

\* with a running task in the registry, run_agent_task has raised for the
\* unknown id and the cancel request for it was answered 404
C17_Witness ==
    /\ resp = Response("cancel", "run_b", 404)
    /\ pc["run_b"] = "orch_raised"
    /\ "run_a" \in Registered
    /\ tasks["run_a"].status = "running"
    /\ "run_b" \notin Registered

\* C18: cancelled is written by the worker only.  The status of a task
\* becomes cancelled only in the step of the worker's loop check that saw
\* cancelling (never by the cancel request or the orchestrator), and a
\* cancelling task is not final: the check it reaches acts on it.
C18_CancelledByWorkerOnly ==
    /\ [][\A t \in Registered :
            (tasks'[t].status = "cancelled" /\ tasks[t].status # "cancelled")
                => /\ tasks[t].status = "cancelling"
                   /\ pc[t] = "w_loop" /\ ~is_done[t]
                   /\ pc'[t] \in {"w_finally", "w_except"}]_vars
    /\ [](\A t \in Registered :
            (tasks[t].status = "cancelling" /\ pc[t] = "w_loop")
                => ENABLED w_loop(t))

\* a task that was cancelled at the check and whose run has ended
C18_Witness ==
    \E t \in Registered :
        /\ tasks[t].status = "cancelled"
        /\ pc[t] = "orch_done"
        /\ cancel_req[t] # NoRequest
        /\ <<None, "cancelled", current_step[t]>> \in
              {Notifications(t)[i] : i \in 1..Len(Notifications(t))}

\* C19: failure handling of the step loop.  The except clause of
\* run_agent_sync, entered with any exception of init or stepping, sets
\* the registry status to failed with an error text that carries the
\* exception, sends one failed update and re-raises that exception, also
\* when a ledger write inside the clause fails.
C19_FailedUpdateAlwaysSent ==
    [][\A t \in Registered :
          (pc[t] = "w_except" /\ pc'[t] # "w_except") =>
              /\ tasks'[t].status = "failed"
              /\ tasks'[t].error = <<"Agent error", exc[t]>>
              /\ Notifications(t)' =
                   Append(Notifications(t), <<None, "failed", tasks[t].step>>)
              /\ exc'[t] = exc[t]]_vars

\* the decision call of step k raised: its position in log[t]
DecideRaised(t, k) ==
    {i \in 1..Len(log[t]) :
        log[t][i].op = "decide" /\ ~log[t][i].ok /\ log[t][i].idx = k}

\* C20: the ledger entry of a step is written before its decision.  With
\* the ledger present, when the decision call of step k >= 1 raises, the
\* entry of step k was opened before the call, and once the worker has left
\* its except clause a fail_step with outcome error was issued for that
\* entry after the call.
C20_EntryOpenedThenFailed ==
    \A t \in Registered :
        MONGODB_AVAILABLE =>
            \A k \in 1..current_step[t] : \A i \in DecideRaised(t, k) :
                LET id == generate_step_id(config[t].task_id, k)
                IN  /\ \E j \in 1..(i - 1) :
                          /\ log[t][j].op = "add_step" /\ log[t][j].ok
                          /\ log[t][j].id = id
                    /\ pc[t] # "w_except" =>
                          \E j \in (i + 1)..Len(log[t]) :
                              /\ log[t][j].op = "fail_step"
                              /\ log[t][j].st = "error"
                              /\ log[t][j].id = id

\* positions in log[t] of the calls op made to sink for step k
At(t, sink, op, k) ==
    {i \in 1..Len(log[t]) :
        log[t][i].sink = sink /\ log[t][i].op = op /\ log[t][i].idx = k}
\* positions in log[t] of the running updates of step k
RunningAt(t, k) ==
    {i \in 1..Len(log[t]) :
        /\ log[t][i].sink = "notify" /\ log[t][i].st = "running"
        /\ log[t][i].idx = k}
Before(A, B) == \A a \in A, b \in B : a < b

\* C21: order of the effects of a step.  For every step k >= 1 each of the
\* effects happens at most once and in the order: ledger entry k opened,
\* decision obtained, registry step set to k, ledger entry k closed as
\* success, running update of k sent, action persisted and applied.  With
\* the ledger present the update of k is preceded by the close of entry k,
\* and the open of entry k + 1 is preceded by the update of k.
C21_StepEffectOrder ==
    \A t \in Registered : \A k \in 1..current_step[t] :
        LET open == At(t, "ledger", "add_step", k)
            decide == At(t, "engine", "decide", k)
            close == At(t, "ledger", "complete_step", k)
            update == RunningAt(t, k)
            apply == At(t, "engine", "save_step_info", k)
                        \cup At(t, "engine", "env_step", k)
            openNext == At(t, "ledger", "add_step", k + 1)
        IN  /\ \A S \in {open, decide, close, update} : Cardinality(S) <= 1
            /\ Before(open, decide) /\ Before(decide, close)
            /\ Before(decide, update) /\ Before(close, update)
            /\ Before(update, apply) /\ Before(update, openNext)
            /\ decide # {} /\ MONGODB_AVAILABLE => open # {}
            /\ update # {} => decide # {}
            /\ update # {} /\ MONGODB_AVAILABLE => close # {}
            /\ apply # {} => update # {}
            /\ openNext # {} => update # {}
            /\ (close # {} \/ update # {}) => tasks[t].step >= k
            /\ (pc[t] \in {"w_decide", "w_record"} /\ current_step[t] = k)
                  => tasks[t].step < k

\* a run with the ledger whose second step was opened after the first was
\* applied and has sent its update
C21_Witness ==
    \E t \in Registered :
        /\ MONGODB_AVAILABLE
        /\ At(t, "engine", "env_step", 1) # {}
        /\ At(t, "ledger", "add_step", 2) # {}
        /\ At(t, "ledger", "complete_step", 2) # {}
        /\ RunningAt(t, 2) # {}

\* the loop iterations performed: the decision calls made
Iterations(t) == {i \in 1..Len(log[t]) : log[t][i].op = "decide"}

\* C22: the registry step never decreases.  A record is created with step
\* 0; every step of the program leaves the registry step of a task or
\* raises it by exactly 1, to the index of the loop iteration being
\* executed; the step that sets completed leaves it equal to the number of
\* loop iterations performed.
C22_StepMonotone ==
    [][/\ \A t \in DOMAIN tasks' \ Registered : tasks'[t].step = 0
       /\ \A t \in Registered :
             /\ tasks'[t].step >= tasks[t].step
             /\ tasks'[t].step # tasks[t].step =>
                   /\ tasks'[t].step = tasks[t].step + 1
                   /\ tasks'[t].step = current_step[t]
             /\ (tasks'[t].status = "completed"
                 /\ tasks[t].status # "completed") =>
                   tasks'[t].step = Cardinality(Iterations(t))]_vars

\* a task completed after two loop iterations
C22_Witness ==
    \E t \in Registered :
        /\ tasks[t].status = "completed"
        /\ tasks[t].step = 2
        /\ Cardinality(Iterations(t)) = 2

\* C23: the error field goes with failed.  A record is created without an
\* error; every step that changes the error of a record writes a non-empty
\* text, is a step of one of the three failure handlers (fast fail,
\* orchestrator's except clause, worker's except clause) and leaves the
\* status of that record failed; a record whose status is completed or
\* cancelled has no error.
C23_ErrorOnlyWithFailed ==
    [][/\ \A t \in DOMAIN tasks' \ Registered : tasks'[t].error = NoError
       /\ \A t \in Registered :
             tasks'[t].error # tasks[t].error =>
                 /\ tasks'[t].error # NoError
                 /\ tasks'[t].status = "failed"
                 /\ pc[t] \in {"pending", "w_exit", "w_except"}
       /\ \A t \in DOMAIN tasks' :
             tasks'[t].status \in {"completed", "cancelled"} =>
                 tasks'[t].error = NoError]_vars

\* the worker's except clause has recorded the error of an engine call
C23_Witness ==
    \E t \in Registered :
        /\ pc[t] = "w_finally"
        /\ tasks[t].status = "failed"
        /\ tasks[t].error = <<"Agent error", "EngineError">>

\* ------------------------------------------------------ two tasks
\* Two tasks side by side, without ledger and callback and with a budget of
\* one step; of the engine calls the decision alone may raise, and cancel
\* requests arrive at any moment.
\* of the calls made so far none but a decision call raised
OnlyDecideRaised ==
    \A t \in RunIds : \A i \in 1..Len(log[t]) :
        ~log[t][i].ok => log[t][i].op = "decide"

PairInit ==
    /\ InitWith({"run_a", "run_b"})
    /\ AGENT_AVAILABLE
    /\ ~MONGODB_AVAILABLE
    /\ id_in = NoIdInput
    /\ id_out = << >>

PairNext ==
    \/ \E t \in RunIds, c \in CapsuleIds : InOrder(t) /\ start_task(t, 1, "", c)
    \/ \E t \in ids : cancel_task(t)
    \/ \E t \in RunIds : run_agent_task_begin(t)
    \/ \E t \in RunIds : run_agent_task_resume(t)
    \/ \E t \in RunIds : worker_start(t) /\ OnlyDecideRaised'
    \/ \E t \in RunIds : w_init(t) /\ OnlyDecideRaised'
    \/ \E t \in RunIds : w_step0(t)
    \/ \E t \in RunIds : w_loop(t)
    \/ \E t \in RunIds : w_open(t)
    \/ \E t \in RunIds : w_decide(t)
    \/ \E t \in RunIds : w_record(t)
    \/ \E t \in RunIds : w_act(t) /\ OnlyDecideRaised'
    \/ \E t \in RunIds : w_complete(t) /\ OnlyDecideRaised'
    \/ \E t \in RunIds : w_except(t)
    \/ \E t \in RunIds : w_finally(t) /\ OnlyDecideRaised'

SpecPair == PairInit /\ [][PairNext]_vars

\* the fields of a record that start_task fixes
Fixed(r) == <<r.total_steps, r.capsule_id, r.started_at>>

\* C24: frame of the task operations.  A step changes the record of at
\* most one task, and only the record of the task whose orchestrator or
\* worker takes the step or which the cancel request names; no step
\* changes the budget, the capsule id or the start time of an existing
\* record.
C24_Frame ==
    [][/\ Cardinality({u \in Registered : tasks'[u] # tasks[u]}) <= 1
       /\ \A u \in Registered :
             /\ Fixed(tasks'[u]) = Fixed(tasks[u])
             /\ tasks'[u] # tasks[u] =>
                   \/ pc'[u] # pc[u]
                   \/ pc' = pc /\ resp' = Response("cancel", u, 200)]_vars

\* two records in different states: one completed, one being cancelled
\* while its worker runs
C24_Witness ==
    \E a, b \in Registered :
        /\ a # b
        /\ tasks[a].status = "completed" /\ tasks[a].step = 1
        /\ tasks[b].status = "cancelling" /\ tasks[b].step = 0
        /\ pc[b] \in WorkerPcs

\* a poll of t that finds the record
PollFound(t) == get_task_status(t) /\ resp'.code = 200

\* C25: records are retired, never removed.  No step removes an identifier
\* from the registry, and in every state a poll of a registered identifier
\* is answered with its record, whatever status the task has reached.
C25_RecordsNeverRemoved ==
    /\ [][Registered \subseteq DOMAIN tasks']_vars
    /\ [](\A t \in Registered : ENABLED PollFound(t))
    /\ [][\A t \in Registered :
            (resp' # resp /\ resp' = Response("status", t, resp'.code))
                => resp'.code = 200]_vars

\* a task whose run has ended completed was polled and found
C25_Witness ==
    \E t \in Registered :
        /\ pc[t] \in Finished
        /\ tasks[t].status = "completed"
        /\ resp = Response("status", t, 200)

\* ------------------------------------------------------ termination
\* One task without callback, ledger and engine free to fail, cancel
\* requests at any moment.  Every call returns or raises (each is one step)
\* and the engine reports done within the budget (w_act).
\* the steps of the event loop and of the pool thread for the task
Run ==
    \/ \E t \in RunIds : run_agent_task_begin(t)
    \/ \E t \in RunIds : run_agent_task_resume(t)
    \/ \E t \in RunIds : worker_start(t)
    \/ \E t \in RunIds : w_init(t)
    \/ \E t \in RunIds : w_step0(t)
    \/ \E t \in RunIds : w_loop(t)
    \/ \E t \in RunIds : w_open(t)
    \/ \E t \in RunIds : w_decide(t)
    \/ \E t \in RunIds : w_record(t)
    \/ \E t \in RunIds : w_act(t)
    \/ \E t \in RunIds : w_complete(t)
    \/ \E t \in RunIds : w_except(t)
    \/ \E t \in RunIds : w_finally(t)

LiveNext ==
    \/ \E t \in RunIds, m \in 1..MaxBudget, c \in CapsuleIds :
          start_task(t, m, "", c)
    \/ \E t \in ids : cancel_task(t)
    \/ Run

\* the event loop runs a ready coroutine and the pool thread keeps running
SpecLive == Init /\ [][LiveNext]_vars /\ WF_vars(Run)

\* C26: termination.  Under fair scheduling of the orchestrator and the
\* worker, every task that was submitted reaches a state in which its
\* registry status is completed, failed or cancelled, and its run ends
\* (run_agent_task returns or raises), however many cancel requests are
\* interleaved.
C26_Termination ==
    \A t \in RunIds :
        /\ (pc[t] = "pending") ~>
              (t \in Registered /\ tasks[t].status \in Terminal)
        /\ (pc[t] = "pending") ~> (pc[t] \in Finished)

\* a task that was cancelled while its worker ran has ended cancelled
C26_Witness ==
    \E t \in Registered :
        /\ cancel_req[t].at \in WorkerPcs
        /\ pc[t] \in Finished
        /\ tasks[t].status = "cancelled"

\* the first loop check of the worker found the task cancelling
CancelledAtFirstCheck(t) ==
    /\ current_step[t] = 0
    /\ \E i \in 1..Len(log[t]) :
          /\ log[t][i].st = "cancelled"
          /\ \/ log[t][i].sink = "notify"
             \/ log[t][i].sink = "ledger" /\ log[t][i].op = "update_run_status"

\* C27: cancellation before the first step.  When the first loop check of
\* the worker finds the status cancelling, that step leaves the task
\* cancelled with registry step 0 and goes on to release the environment;
\* afterwards no decision call is made and no ledger entry with index >= 1
\* is opened, and when the worker has ended the environment that init
\* constructed is closed.
C27_CancelBeforeFirstStep ==
    [][\A t \in Registered :
          /\ (/\ pc[t] = "w_loop" /\ pc'[t] # "w_loop"
              /\ current_step[t] = 0 /\ ~is_done[t]
              /\ tasks[t].status = "cancelling")
                => /\ tasks'[t].status = "cancelled"
                   /\ tasks'[t].step = 0
                   /\ pc'[t] = "w_finally"
          /\ CancelledAtFirstCheck(t)' =>
                /\ tasks'[t].step = 0
                /\ Iterations(t)' = {}
                /\ \A i \in 1..Len(log'[t]) : log'[t][i].op # "add_step"
                                              \/ log'[t][i].idx = 0
                /\ pc'[t] \in {"w_exit"} \cup Finished =>
                      env'[t] = "closed"]_vars

\* ------------------------------------------------------ workflows
\* POST /workflows.  The handler is a coroutine without an await, so each
\* request is one atomic step of the event loop.

\* largest number of workflows created in the model
MaxWorkflows == 2

\* values of the Idempotency-Key header: absent, empty, or a key
IdempotencyKeys == {None, "", "k1", "k2"}

\* bool(idempotency_key): None and the empty string are false
HasKey(key) == key \notin {None, ""}

\* request bodies: a document with no source reference or one that
\* references the source s1, and the sources the request provides
WorkflowMds == {"md_plain", "md_source"}
SourceLists == {<< >>, <<"s1">>}

\* the deduplicated source keys the document references
parse_workflow_markdown(workflow_md) ==
    IF workflow_md = "md_source" THEN <<"s1">> ELSE << >>

\* the identifier built from the n-th uuid4 draw, and the one the document
\* store chose for the same document
WfId(n) == <<"wf", n>>
DbId(n) == <<"db", n>>

\* mongodb.create_workflow: returns a dict that carries the workflow_id of
\* the document, an identifier of its own (a string, or a dict with only
\* an _id), any other value, or raises.  A db module without
\* create_workflow behaves as one that is not connected.
CreateOutcomes == {"dict", "str", "other", "raise"}

\* the value store_workflow returns for document number n
StoredId(n, o) ==
    IF MONGODB_CONNECTED /\ o = "str" THEN DbId(n) ELSE WfId(n)

store_workflow(doc, o) ==
    /\ mongo_workflows' =
           IF MONGODB_CONNECTED /\ o # "raise"
           THEN mongo_workflows \cup {doc}
           ELSE mongo_workflows
    /\ workflows' =
           IF MONGODB_CONNECTED /\ o \in {"dict", "str"}
           THEN workflows
           ELSE workflows @@ (doc.workflow_id :> doc)

\* the request body turned into the document and the response
WorkflowStatus(workflow_md, sources) ==
    LET referenced == parse_workflow_markdown(workflow_md)
        provided == {sources[i] : i \in DOMAIN sources}
        missing == SelectSeq(referenced, LAMBDA k : k \notin provided)
    IN  [status |-> IF missing # << >> THEN "invalid" ELSE "ready",
         validation |-> [referenced_source_keys |-> referenced,
                         missing_sources |-> missing]]

WorkflowDoc(n, workflow_md, sources) ==
    [workflow_id |-> WfId(n),
     workflow_md |-> workflow_md,
     sources |-> sources,
     version |-> 1,
     status |-> WorkflowStatus(workflow_md, sources).status,
     validation |-> WorkflowStatus(workflow_md, sources).validation]

WorkflowCreateResponse(workflow_id, status, validation) ==
    [workflow_id |-> workflow_id, version |-> 1,
     status |-> status, validation |-> validation]

\* idempotency_cache[key] = response_payload
CachePut(key, response_payload) ==
    [k \in DOMAIN idempotency_cache \cup {key} |->
        IF k = key THEN response_payload ELSE idempotency_cache[k]]

\* create_workflow without the lookup in idempotency_cache
create_workflow_nocache(key, workflow_md, sources, o) ==
    /\ wf_next < MaxWorkflows
    /\ LET doc == WorkflowDoc(wf_next + 1, workflow_md, sources)
           response_payload ==
               WorkflowCreateResponse(StoredId(wf_next + 1, o),
                                      doc.status, doc.validation)
       IN  /\ wf_next' = wf_next + 1
           /\ store_workflow(doc, o)
           /\ idempotency_cache' =
                  IF HasKey(key)
                  THEN CachePut(key, response_payload)
                  ELSE idempotency_cache
           /\ wf_resp' = response_payload
    /\ UNCHANGED <<AGENT_AVAILABLE, MONGODB_AVAILABLE, ids,
                   MONGODB_CONNECTED, regVars, pc, workerVars, exc, log,
                   last_send, cancel_req, idVars, queue, resp>>

create_workflow(key, workflow_md, sources, o) ==
    /\ IF HasKey(key) /\ key \in DOMAIN idempotency_cache
       THEN /\ wf_resp' = idempotency_cache[key]
            /\ UNCHANGED <<workflows, mongo_workflows,
                           idempotency_cache, wf_next>>
       ELSE /\ wf_next < MaxWorkflows
            /\ LET doc == WorkflowDoc(wf_next + 1, workflow_md, sources)
                   response_payload ==
                       WorkflowCreateResponse(StoredId(wf_next + 1, o),
                                              doc.status, doc.validation)
               IN  /\ wf_next' = wf_next + 1
                   /\ store_workflow(doc, o)
                   /\ idempotency_cache' =
                          IF HasKey(key)
                          THEN CachePut(key, response_payload)
                          ELSE idempotency_cache
                   /\ wf_resp' = response_payload
    /\ UNCHANGED <<AGENT_AVAILABLE, MONGODB_AVAILABLE, ids,
                   MONGODB_CONNECTED, regVars, pc, workerVars, exc, log,
                   last_send, cancel_req, idVars, queue, resp>>

\* No task, the document store reachable or not, and any sequence of
\* requests that create a workflow.
WfInit ==
    /\ InitState({}, BOOLEAN)
    /\ AGENT_AVAILABLE
    /\ id_in = NoIdInput
    /\ id_out = << >>

WfNext ==
    \E key \in IdempotencyKeys, workflow_md \in WorkflowMds,
       sources \in SourceLists, o \in CreateOutcomes :
        create_workflow(key, workflow_md, sources, o)

SpecWf == WfInit /\ [][WfNext]_vars

\* the identifiers of the workflows stored in memory or in the document store
StoredWorkflows ==
    DOMAIN workflows \cup {doc.workflow_id : doc \in mongo_workflows}

\* C28: workflow creation is idempotent per Idempotency-Key.  A request
\* whose key is in the cache is answered with the cached response, draws
\* no identifier and leaves both stores and the cache unchanged; any other
\* request (a key seen for the first time, or no key) draws one identifier
\* and stores exactly one new workflow, and a first request with a key
\* caches the response it returns; a cached response never changes.
C28_IdempotentCreate ==
    [][\A key \in IdempotencyKeys, workflow_md \in WorkflowMds,
          sources \in SourceLists, o \in CreateOutcomes :
          create_workflow(key, workflow_md, sources, o) =>
              /\ \A k \in DOMAIN idempotency_cache :
                     /\ k \in DOMAIN idempotency_cache'
                     /\ idempotency_cache'[k] = idempotency_cache[k]
              /\ IF key \in DOMAIN idempotency_cache
                 THEN /\ wf_resp' = idempotency_cache[key]
                      /\ UNCHANGED <<workflows, mongo_workflows,
                                     idempotency_cache, wf_next>>
                 ELSE /\ wf_next' = wf_next + 1
                      /\ WfId(wf_next') \notin StoredWorkflows
                      /\ StoredWorkflows' =
                             StoredWorkflows \cup {WfId(wf_next')}
                      /\ wf_resp'.workflow_id
                             \in {WfId(wf_next'), DbId(wf_next')}
                      /\ IF HasKey(key)
                         THEN /\ DOMAIN idempotency_cache' =
                                     DOMAIN idempotency_cache \cup {key}
                              /\ idempotency_cache'[key] = wf_resp'
                         ELSE idempotency_cache' = idempotency_cache]_vars

\* a request with key k1 created the first workflow, a second workflow
\* was created afterwards, and a later request with k1 was answered with
\* the response of the first
C28_Witness ==
    /\ "k1" \in DOMAIN idempotency_cache
    /\ idempotency_cache["k1"].workflow_id \in {WfId(1), DbId(1)}
    /\ wf_next = 2
    /\ Cardinality(StoredWorkflows) = 2
    /\ wf_resp = idempotency_cache["k1"]

====
